---- MODULE Spec2Model ----
(***************************************************************************)
(* The lifecycle core of GameBase (newer variant, game-base.ts): load(),   *)
(* start(), reset(), join(), lastGameResult, with the promise reactions    *)
(* that the class registers modelled as jobs of one FIFO microtask queue.  *)
(*                                                                         *)
(* Scheduling model.  A step is either one microtask (the job at the head  *)
(* of `queue`), or a piece of code of the environment: a call of the       *)
(* public API, the settlement of a promise returned by loadImpl, startImpl *)
(* or resetImpl, or a call of the progress callback.  Environment code     *)
(* runs between macrotasks (the microtask queue is empty) and, at most     *)
(* MaxMicro times in a behaviour, between two microtasks; a timer created  *)
(* by setTimeout fires only when the microtask queue is empty.             *)
(* resetImpl may throw instead of returning a promise; loadImpl and        *)
(* startImpl always return a promise.  Event listeners are passive: they   *)
(* do not call back into the instance.                                     *)
(*                                                                         *)
(* Two further specifications share the variables: ErrorSpec applies       *)
(* newError to values of every kind, and OldSpec is the older variant of   *)
(* GameBase (start(forceRestart), reset(infallible)).                      *)
(***************************************************************************)
EXTENDS Integers, Sequences, FiniteSets, TLC

\* ---- bounds of the model ------------------------------------------------
MaxCalls == 3        \* calls of the environment: load / start / reset calls that
                     \* start a load, a run or a reset, and progress callbacks

MaxMicro == 0        \* steps the environment takes while microtasks are queued

\* identities of loads, runs and resets; one more than the calls allowed,
\* because a call's effect is computed before its budget is checked
Ids == 1..(MaxCalls + 1)
ProgressInputs == {-5, 50, 150}

VARIABLES
  loaded,          \* #loaded
  loadingPromise,  \* #loadingPromise: 0 (undefined) or the id of a load
  runningHandle,   \* #runningHandle: 0 (undefined) or the id of a run
  resetPromise,    \* #resetPromise: 0 (undefined) or the id of a reset
  lastEnd,         \* #lastEnd
  events,          \* what #events.emit has emitted, in order
  pst,             \* state and value of every promise
  rx,              \* reactions registered on every pending promise
  queue,           \* the microtask queue
  timer,           \* the setTimeout timer of every reset
  nLoads,          \* loads started   (= invocations of loadImpl)
  nRuns,           \* runs accepted by start()
  nResets,         \* #doReset invocations
  nCalls,          \* calls of the environment counted against MaxCalls
  nMicro,          \* environment steps taken while microtasks were queued
  canceledBy,      \* run -> the reset whose #doReset captured it (0: none)
  resetImplCalls,  \* invocations of resetImpl
  lastCall         \* the public call this step made and what it returned, if any

vars == <<loaded, loadingPromise, runningHandle, resetPromise, lastEnd, events,
          pst, rx, queue, timer, nLoads, nRuns, nResets, nCalls, nMicro,
          canceledBy, resetImplCalls, lastCall>>

fields == <<loaded, loadingPromise, runningHandle, resetPromise, lastEnd>>

\* ---- values ----------------------------------------------------------------
Undefined == [tag |-> "undefined"]
GameCanceled == [tag |-> "GameCanceled"]
GameAlreadyRunning == [tag |-> "GameAlreadyRunning"]
GameName == "TestGame"
GAME_ERROR_SUFFIX == "GameError"

GameEndStatus == [Success |-> "success", Failure |-> "failure", Error |-> "error"]

\* an outcome startImpl of run r may resolve with
GameOutcome(s, r) == [status |-> s, metadata |-> [score |-> r]]
\* a value loadImpl / startImpl / resetImpl may reject with
PlainError(what, n) == [error |-> what, n |-> n]

\* newGameErrorClass(name): instances carry game, name and originalError
IsGameError(e) == "originalError" \in DOMAIN e

\* the values that are JavaScript symbols
IsSymbol(e) == e \in {GameCanceled, GameAlreadyRunning}
\* what the evaluation of an expression yields when it throws a TypeError
TypeError == [tag |-> "TypeError"]

\* new C(e) for the class C that newGameErrorClass(g) returns: the message is
\* `${e}`, which throws for a symbol; the own enumerable properties of a
\* GameError e (of any game) are copied with Object.assign, originalError
\* included, and then the fields game and name of C are initialised
GameErrorConstructor(g, e) ==
  IF IsSymbol(e) THEN TypeError
  ELSE [game |-> g, name |-> g \o GAME_ERROR_SUFFIX,
        originalError |-> IF IsGameError(e) THEN e.originalError ELSE e]

ErrorClass(e) == GameErrorConstructor(GameName, e)

newError(e) ==
  IF IsGameError(e) /\ e.game = GameName THEN e ELSE ErrorClass(e)

\* ---- promises and the microtask queue ---------------------------------------
\* PI loadImpl's promise, L the loading promise, CS cancelSignal, GP gamePromise,
\* P1 / P2 the two Promise.race calls of start(), RET the promise start() returns,
\* TP the timer promise, RI resetImpl's promise, RP the race of #doReset,
\* R the promise reset() returns.
PKinds == {"PI", "L", "CS", "GP", "P1", "P2", "RET", "TP", "RI", "RP", "R"}
PIds == PKinds \X Ids
NoP == <<"none", 0>>
Resolved == <<"resolved", 0>>      \* a fresh Promise.resolve()

NoneP == [st |-> "none", v |-> Undefined]
Pending == [st |-> "pending", v |-> Undefined]

NoCall == [op |-> "none", ret |-> NoP]
\* what a call returned when it threw the symbol e
Thrown(e) == <<e.tag, 0>>

Job(k, i, p) == [k |-> k, i |-> i, p |-> p]

Heap == [pst |-> pst, rx |-> rx, q |-> queue]

StOf(h, p) == IF p = Resolved THEN "fulfilled" ELSE h.pst[p].st
ValOf(h, p) == IF p = Resolved THEN Undefined ELSE h.pst[p].v

\* new Promise(...) / the promise of an async call: pending, no reactions
NewPromise(h, p) == [h EXCEPT !.pst[p] = Pending, !.rx[p] = <<>>]

\* resolve / reject functions of a promise: the first call settles it and
\* queues its reactions in registration order; later calls do nothing
Settle(h, p, st, v) ==
  IF h.pst[p].st # "pending" THEN h
  ELSE [h EXCEPT !.pst[p] = [st |-> st, v |-> v], !.q = h.q \o h.rx[p], !.rx[p] = <<>>]

\* p.then(job) / await p: run job one microtask after p settles
Then(h, p, job) ==
  IF StOf(h, p) = "pending" THEN [h EXCEPT !.rx[p] = Append(h.rx[p], job)]
  ELSE [h EXCEPT !.q = Append(h.q, job)]

\* the heap after the head job has been taken from the queue
Popped == [Heap EXCEPT !.q = Tail(queue)]

HeadIs(k) == queue # <<>> /\ Head(queue).k = k

SetHeap(h) == pst' = h.pst /\ rx' = h.rx /\ queue' = h.q

Emit(ev, arg, run) == events' = Append(events, [ev |-> ev, arg |-> arg, run |-> run])

\* faulty variant of the clamping: Math.min(100, progress) only
clampUpperOnly(progress) == IF progress < 100 THEN progress ELSE 100

\* Math.max(0, Math.min(100, progress))
clamp(progress) ==
  LET lo == IF progress < 100 THEN progress ELSE 100
  IN IF lo > 0 THEN lo ELSE 0

Init ==
  /\ loaded = FALSE
  /\ loadingPromise = 0
  /\ runningHandle = 0
  /\ resetPromise = 0
  /\ lastEnd = Undefined
  /\ events = <<>>
  /\ pst = [p \in PIds |-> NoneP]
  /\ rx = [p \in PIds |-> <<>>]
  /\ queue = <<>>
  /\ timer = [k \in Ids |-> "none"]
  /\ nLoads = 0 /\ nRuns = 0 /\ nResets = 0 /\ nCalls = 0 /\ nMicro = 0
  /\ canceledBy = [r \in Ids |-> 0]
  /\ resetImplCalls = 0
  /\ lastCall = NoCall

\* A reaction of a Promise.race that has already been decided does nothing.
\* The settlement of a promise of the game all of whose reactions do nothing
\* cannot be observed by the class: the model leaves such a promise pending.
Live(job) ==
  CASE job.k = "race1" -> pst[<<"P1", job.i>>].st = "pending"
    [] job.k = "race2" -> pst[<<"P2", job.i>>].st = "pending"
    [] job.k = "raceR" -> pst[<<"RP", job.i>>].st = "pending"
    [] OTHER -> TRUE

Observed(p) ==
  /\ pst[p].st = "pending"
  /\ \E n \in 1..Len(rx[p]) : Live(rx[p][n])

\* the environment runs between macrotasks (the queue is empty), or, at most
\* MaxMicro times in a behaviour, between two microtasks
EnvTurn ==
  /\ queue # <<>> => nMicro < MaxMicro
  /\ nMicro' = (IF queue # <<>> THEN nMicro + 1 ELSE nMicro)

\* a microtask has run
JobDone == UNCHANGED nMicro

\* calls left in the budget
CanAlloc == nCalls < MaxCalls

\* ---- load() -------------------------------------------------------------------
\* load() as called on heap h: the promise it returns and what it changed
\* (h the heap, lp #loadingPromise, ev the events, n the loadImpl calls so far)
\* `if (this.#loaded) return Promise.resolve()`
loadDone(h) ==
  [h |-> h, lp |-> loadingPromise, ev |-> events, n |-> nLoads, ret |-> Resolved]

\* `if (this.#loadingPromise) return this.#loadingPromise`
loadShared(h) ==
  [h |-> h, lp |-> loadingPromise, ev |-> events, n |-> nLoads,
   ret |-> <<"L", loadingPromise>>]

\* the rest of load(): a new loading promise
loadNew(h) ==
    LET l  == nLoads + 1
        h1 == NewPromise(NewPromise(h, <<"PI", l>>), <<"L", l>>)
        \* emit loading; await this.loadImpl(...)
        h2 == Then(h1, <<"PI", l>>, Job("loadCont", l, <<"PI", l>>))
        \* loadingPromise.finally(...)
        h3 == Then(h2, <<"L", l>>, Job("loadFin", l, <<"L", l>>))
    IN [h |-> h3, lp |-> l,
        ev |-> Append(events, [ev |-> "loading", arg |-> <<>>, run |-> 0]),
        n |-> l, ret |-> <<"L", l>>]

\* faulty variants of load(): without the check of the pending promise, and
\* without the check of #loaded
loadIgnoringPending(h) == IF loaded THEN loadDone(h) ELSE loadNew(h)

loadIgnoringLoaded(h) == IF loadingPromise # 0 THEN loadShared(h) ELSE loadNew(h)

load(h) ==
  IF loaded THEN loadDone(h)
  ELSE IF loadingPromise # 0 THEN loadShared(h)
  ELSE loadNew(h)

\* a public load() call; it counts against MaxCalls when it starts a load
LoadCall ==
  /\ EnvTurn
  /\ LET res == load(Heap) IN
       /\ res.n # nLoads => CanAlloc
       /\ nCalls' = (IF res.n # nLoads THEN nCalls + 1 ELSE nCalls)
       /\ SetHeap(res.h)
       /\ loadingPromise' = res.lp
       /\ events' = res.ev
       /\ nLoads' = res.n
       /\ lastCall' = [op |-> "load", ret |-> res.ret]
  /\ UNCHANGED <<loaded, runningHandle, resetPromise, lastEnd, timer, nRuns, nResets,
                 canceledBy, resetImplCalls>>

\* the promise returned by loadImpl settles
LoadImplSettle(l, st) ==
  /\ EnvTurn
  /\ Observed(<<"PI", l>>)
  /\ SetHeap(Settle(Heap, <<"PI", l>>, st,
                    IF st = "fulfilled" THEN Undefined ELSE PlainError("LoadErr", l)))
  /\ UNCHANGED <<fields, events, timer, nLoads, nRuns, nResets, canceledBy,
                 resetImplCalls>>
  /\ UNCHANGED nCalls
  /\ lastCall' = NoCall

\* faulty variant of #loadingProgressCb: progress is reported even when loaded
loadingProgressCbUnguarded(progress) ==
  /\ EnvTurn
  /\ nLoads > 0
  /\ CanAlloc
  /\ nCalls' = nCalls + 1
  /\ Emit("loading", <<clamp(progress)>>, 0)
  /\ UNCHANGED <<fields, pst, rx, queue, timer, nLoads, nRuns, nResets, canceledBy,
                 resetImplCalls>>
  /\ lastCall' = NoCall

\* #loadingProgressCb(progress), called by the game's loader
loadingProgressCb(progress) ==
  /\ EnvTurn
  /\ nLoads > 0
  /\ CanAlloc
  /\ nCalls' = nCalls + 1
  /\ IF loaded THEN UNCHANGED events
     ELSE Emit("loading", <<clamp(progress)>>, 0)
  /\ UNCHANGED <<fields, pst, rx, queue, timer, nLoads, nRuns, nResets, canceledBy,
                 resetImplCalls>>
  /\ lastCall' = NoCall

\* faulty variant of the continuation of load(): #loaded is never set
LoadContNeverLoaded ==
  /\ HeadIs("loadCont")
  /\ LET l == Head(queue).i
         ok == pst[<<"PI", l>>].st = "fulfilled" IN
       /\ IF ok THEN Emit("loaded", <<>>, 0) ELSE UNCHANGED events
       /\ SetHeap(Settle(Popped, <<"L", l>>, pst[<<"PI", l>>].st, pst[<<"PI", l>>].v))
  /\ UNCHANGED <<loaded, loadingPromise, runningHandle, resetPromise, lastEnd, timer,
                 nLoads, nRuns, nResets, canceledBy, resetImplCalls>>
  /\ UNCHANGED nCalls
  /\ lastCall' = NoCall
  /\ JobDone

\* the async arrow of load() resumes after `await this.loadImpl(...)`
LoadCont ==
  /\ HeadIs("loadCont")
  /\ LET l == Head(queue).i
         ok == pst[<<"PI", l>>].st = "fulfilled" IN
       /\ loaded' = (IF ok THEN TRUE ELSE loaded)
       /\ IF ok THEN Emit("loaded", <<>>, 0) ELSE UNCHANGED events
       /\ SetHeap(Settle(Popped, <<"L", l>>, pst[<<"PI", l>>].st, pst[<<"PI", l>>].v))
  /\ UNCHANGED <<loadingPromise, runningHandle, resetPromise, lastEnd, timer, nLoads,
                 nRuns, nResets, canceledBy, resetImplCalls>>
  /\ UNCHANGED nCalls
  /\ lastCall' = NoCall
  /\ JobDone

\* faulty variant of the finally reaction: the handle is kept
LoadFinKeepsHandle ==
  /\ HeadIs("loadFin")
  /\ SetHeap(Popped)
  /\ UNCHANGED <<fields, events, timer, nLoads, nRuns, nResets, canceledBy,
                 resetImplCalls>>
  /\ UNCHANGED nCalls
  /\ lastCall' = NoCall
  /\ JobDone

\* loadingPromise.finally(() => { this.#loadingPromise = undefined })
LoadFin ==
  /\ HeadIs("loadFin")
  /\ loadingPromise' = 0
  /\ SetHeap(Popped)
  /\ UNCHANGED <<loaded, runningHandle, resetPromise, lastEnd, events, timer, nLoads,
                 nRuns, nResets, canceledBy, resetImplCalls>>
  /\ UNCHANGED nCalls
  /\ lastCall' = NoCall
  /\ JobDone

\* ---- start() ----------------------------------------------------------------
\* start() past the GameAlreadyRunning check: the executor up to its first
\* await, the settlement handlers, the run handle, "started"
StartBody ==
  /\ EnvTurn
  /\ CanAlloc
  /\ nCalls' = nCalls + 1
  /\ LET r   == nRuns + 1
         h1  == NewPromise(NewPromise(Heap, <<"CS", r>>), <<"RET", r>>)
         \* executor: await this.load()
         res == load(h1)
         h2  == Then(res.h, res.ret, Job("execLoad", r, res.ret))
         \* ret.then(...).catch(...).finally(...)
         h3  == Then(h2, <<"RET", r>>, Job("retThen", r, <<"RET", r>>))
     IN /\ SetHeap(h3)
        /\ lastEnd' = Undefined
        /\ loadingPromise' = res.lp
        /\ nLoads' = res.n
        /\ nRuns' = r
        /\ runningHandle' = r
        /\ events' = Append(res.ev, [ev |-> "started", arg |-> <<>>, run |-> r])
        /\ lastCall' = [op |-> "start", ret |-> <<"RET", r>>]
  /\ UNCHANGED <<loaded, resetPromise, timer, nResets, canceledBy, resetImplCalls>>

\* start() with no run handle
StartAccept == runningHandle = 0 /\ StartBody

\* faulty variant of start(): without the check of the run handle
StartReplacesRun == runningHandle # 0 /\ StartBody

\* start() while a run handle is present: throws GameAlreadyRunning
StartThrow ==
  /\ EnvTurn
  /\ runningHandle # 0
  /\ UNCHANGED nCalls
  /\ lastCall' = [op |-> "start", ret |-> Thrown(GameAlreadyRunning)]
  /\ UNCHANGED <<fields, events, pst, rx, queue, timer, nLoads, nRuns, nResets,
                 canceledBy, resetImplCalls>>

\* faulty variant of the executor of start(): startImpl is invoked even when
\* the awaited load() rejected
ExecLoadIgnoresFailure ==
  /\ HeadIs("execLoad")
  /\ LET r == Head(queue).i
         p == Head(queue).p
         h0 == Popped IN
       IF FALSE
         THEN SetHeap(Settle(h0, <<"RET", r>>, "rejected", ValOf(h0, p)))
         ELSE LET h1 == NewPromise(NewPromise(h0, <<"GP", r>>), <<"P1", r>>)
                  h2 == Then(h1, <<"CS", r>>, Job("race1", r, <<"CS", r>>))
                  h3 == Then(h2, <<"GP", r>>, Job("race1", r, <<"GP", r>>))
                  h4 == Then(h3, <<"P1", r>>, Job("execRace1", r, <<"P1", r>>))
              IN SetHeap(h4)
  /\ UNCHANGED <<fields, events, timer, nLoads, nRuns, nResets, canceledBy,
                 resetImplCalls>>
  /\ UNCHANGED nCalls
  /\ lastCall' = NoCall
  /\ JobDone

\* executor resumes after `await this.load()`: invokes startImpl and races it
\* against cancelSignal, or rejects with the load error
ExecLoad ==
  /\ HeadIs("execLoad")
  /\ LET r == Head(queue).i
         p == Head(queue).p
         h0 == Popped IN
       IF StOf(h0, p) = "rejected"
         THEN SetHeap(Settle(h0, <<"RET", r>>, "rejected", ValOf(h0, p)))
         ELSE LET h1 == NewPromise(NewPromise(h0, <<"GP", r>>), <<"P1", r>>)
                  h2 == Then(h1, <<"CS", r>>, Job("race1", r, <<"CS", r>>))
                  h3 == Then(h2, <<"GP", r>>, Job("race1", r, <<"GP", r>>))
                  h4 == Then(h3, <<"P1", r>>, Job("execRace1", r, <<"P1", r>>))
              IN SetHeap(h4)
  /\ UNCHANGED <<fields, events, timer, nLoads, nRuns, nResets, canceledBy,
                 resetImplCalls>>
  /\ UNCHANGED nCalls
  /\ lastCall' = NoCall
  /\ JobDone

\* the promise returned by startImpl settles
StartImplSettle(r, st, status) ==
  /\ EnvTurn
  /\ Observed(<<"GP", r>>)
  /\ SetHeap(Settle(Heap, <<"GP", r>>, st,
                    IF st = "fulfilled" THEN GameOutcome(status, r)
                    ELSE PlainError("StartErr", r)))
  /\ UNCHANGED <<fields, events, timer, nLoads, nRuns, nResets, canceledBy,
                 resetImplCalls>>
  /\ UNCHANGED nCalls
  /\ lastCall' = NoCall

\* a reaction of Promise.race([cancelSignal, gamePromise])
Race1 ==
  /\ HeadIs("race1")
  /\ LET r == Head(queue).i
         p == Head(queue).p IN
       SetHeap(Settle(Popped, <<"P1", r>>, pst[p].st, pst[p].v))
  /\ UNCHANGED <<fields, events, timer, nLoads, nRuns, nResets, canceledBy,
                 resetImplCalls>>
  /\ UNCHANGED nCalls
  /\ lastCall' = NoCall
  /\ JobDone

\* faulty variant of the executor: a rejection of startImpl resolves the future
\* with an Error outcome
ExecRace1Wraps ==
  /\ HeadIs("execRace1")
  /\ LET r == Head(queue).i
         h0 == Popped
         won == pst[<<"P1", r>>] IN
       IF won.st = "rejected"
         THEN SetHeap(Settle(h0, <<"RET", r>>, "fulfilled",
                            [status |-> GameEndStatus.Error, metadata |-> newError(won.v)]))
       ELSE IF won.v # GameCanceled
         THEN SetHeap(Settle(h0, <<"RET", r>>, "fulfilled", won.v))
       ELSE IF resetPromise # 0
         THEN LET k  == resetPromise
                  h1 == NewPromise(h0, <<"P2", r>>)
                  h2 == Then(h1, <<"R", k>>, Job("race2", r, <<"R", k>>))
                  h3 == Then(h2, <<"GP", r>>, Job("race2", r, <<"GP", r>>))
                  h4 == Then(h3, <<"P2", r>>, Job("catch2", r, <<"P2", r>>))
              IN SetHeap(h4)
       ELSE SetHeap(Settle(h0, <<"RET", r>>, "rejected", GameCanceled))
  /\ UNCHANGED <<fields, events, timer, nLoads, nRuns, nResets, canceledBy,
                 resetImplCalls>>
  /\ UNCHANGED nCalls
  /\ lastCall' = NoCall
  /\ JobDone

\* executor resumes after the first race
ExecRace1 ==
  /\ HeadIs("execRace1")
  /\ LET r == Head(queue).i
         h0 == Popped
         won == pst[<<"P1", r>>] IN
       IF won.st = "rejected"
         THEN SetHeap(Settle(h0, <<"RET", r>>, "rejected", won.v))
       ELSE IF won.v # GameCanceled
         THEN SetHeap(Settle(h0, <<"RET", r>>, "fulfilled", won.v))
       ELSE IF resetPromise # 0
         THEN LET k  == resetPromise
                  h1 == NewPromise(h0, <<"P2", r>>)
                  h2 == Then(h1, <<"R", k>>, Job("race2", r, <<"R", k>>))
                  h3 == Then(h2, <<"GP", r>>, Job("race2", r, <<"GP", r>>))
                  h4 == Then(h3, <<"P2", r>>, Job("catch2", r, <<"P2", r>>))
              IN SetHeap(h4)
       ELSE SetHeap(Settle(h0, <<"RET", r>>, "rejected", GameCanceled))
  /\ UNCHANGED <<fields, events, timer, nLoads, nRuns, nResets, canceledBy,
                 resetImplCalls>>
  /\ UNCHANGED nCalls
  /\ lastCall' = NoCall
  /\ JobDone

\* a reaction of Promise.race([resetPromise, gamePromise])
Race2 ==
  /\ HeadIs("race2")
  /\ LET r == Head(queue).i
         p == Head(queue).p IN
       SetHeap(Settle(Popped, <<"P2", r>>, pst[p].st, pst[p].v))
  /\ UNCHANGED <<fields, events, timer, nLoads, nRuns, nResets, canceledBy,
                 resetImplCalls>>
  /\ UNCHANGED nCalls
  /\ lastCall' = NoCall
  /\ JobDone

\* .catch(() => {}) of the second race: fulfils either way, the await resumes next
Catch2 ==
  /\ HeadIs("catch2")
  /\ SetHeap([Popped EXCEPT !.q = Append(Tail(queue),
                                         Job("execRace2", Head(queue).i, Head(queue).p))])
  /\ UNCHANGED <<fields, events, timer, nLoads, nRuns, nResets, canceledBy,
                 resetImplCalls>>
  /\ UNCHANGED nCalls
  /\ lastCall' = NoCall
  /\ JobDone

\* faulty variant: an outcome startImpl produced during the second race is
\* reported
ExecRace2ReportsLate ==
  /\ HeadIs("execRace2")
  /\ LET r == Head(queue).i
         gp == pst[<<"GP", r>>] IN
       IF gp.st = "fulfilled"
         THEN SetHeap(Settle(Popped, <<"RET", r>>, "fulfilled", gp.v))
         ELSE SetHeap(Settle(Popped, <<"RET", r>>, "rejected", GameCanceled))
  /\ UNCHANGED <<fields, events, timer, nLoads, nRuns, nResets, canceledBy,
                 resetImplCalls>>
  /\ UNCHANGED nCalls
  /\ lastCall' = NoCall
  /\ JobDone

\* executor resumes after the second race: rej(GameCanceled)
ExecRace2 ==
  /\ HeadIs("execRace2")
  /\ SetHeap(Settle(Popped, <<"RET", Head(queue).i>>, "rejected", GameCanceled))
  /\ UNCHANGED <<fields, events, timer, nLoads, nRuns, nResets, canceledBy,
                 resetImplCalls>>
  /\ UNCHANGED nCalls
  /\ lastCall' = NoCall
  /\ JobDone

\* faulty variant of the then handler: the outcome is reported but not recorded
RetThenForgets ==
  /\ HeadIs("retThen")
  /\ LET r == Head(queue).i
         ret == pst[<<"RET", r>>] IN
       /\ IF ret.st = "fulfilled"
            THEN Emit("end", ret.v, r)
            ELSE UNCHANGED events
       /\ SetHeap([Popped EXCEPT !.q = Append(Tail(queue), Job("retCatch", r, <<"RET", r>>))])
  /\ UNCHANGED <<fields, timer, nLoads, nRuns, nResets, canceledBy, resetImplCalls>>
  /\ UNCHANGED nCalls
  /\ lastCall' = NoCall
  /\ JobDone

\* ret.then(endMetadata => ...): records and reports the outcome of a resolved run
RetThen ==
  /\ HeadIs("retThen")
  /\ LET r == Head(queue).i
         ret == pst[<<"RET", r>>] IN
       /\ IF ret.st = "fulfilled"
            THEN lastEnd' = ret.v /\ Emit("end", ret.v, r)
            ELSE UNCHANGED <<lastEnd, events>>
       /\ SetHeap([Popped EXCEPT !.q = Append(Tail(queue), Job("retCatch", r, <<"RET", r>>))])
  /\ UNCHANGED <<loaded, loadingPromise, runningHandle, resetPromise, timer, nLoads,
                 nRuns, nResets, canceledBy, resetImplCalls>>
  /\ UNCHANGED nCalls
  /\ lastCall' = NoCall
  /\ JobDone

\* faulty variant of the catch handler: the error is not wrapped
RetCatchUnwrapped ==
  /\ HeadIs("retCatch")
  /\ LET r == Head(queue).i
         ret == pst[<<"RET", r>>]
         endMetadata == [status |-> GameEndStatus.Error, metadata |-> ret.v] IN
       /\ IF ret.st # "rejected" THEN UNCHANGED <<lastEnd, events>>
          ELSE IF ret.v = GameCanceled
            THEN Emit("end", GameCanceled, r) /\ UNCHANGED lastEnd
          ELSE lastEnd' = endMetadata /\ Emit("end", endMetadata, r)
       /\ SetHeap([Popped EXCEPT !.q = Append(Tail(queue), Job("retFin", r, <<"RET", r>>))])
  /\ UNCHANGED <<loaded, loadingPromise, runningHandle, resetPromise, timer, nLoads,
                 nRuns, nResets, canceledBy, resetImplCalls>>
  /\ UNCHANGED nCalls
  /\ lastCall' = NoCall
  /\ JobDone

\* .catch(e => ...): reports GameCanceled, or records and reports an Error outcome
RetCatch ==
  /\ HeadIs("retCatch")
  /\ LET r == Head(queue).i
         ret == pst[<<"RET", r>>]
         endMetadata == [status |-> GameEndStatus.Error, metadata |-> newError(ret.v)] IN
       /\ IF ret.st # "rejected" THEN UNCHANGED <<lastEnd, events>>
          ELSE IF ret.v = GameCanceled
            THEN Emit("end", GameCanceled, r) /\ UNCHANGED lastEnd
          ELSE lastEnd' = endMetadata /\ Emit("end", endMetadata, r)
       /\ SetHeap([Popped EXCEPT !.q = Append(Tail(queue), Job("retFin", r, <<"RET", r>>))])
  /\ UNCHANGED <<loaded, loadingPromise, runningHandle, resetPromise, timer, nLoads,
                 nRuns, nResets, canceledBy, resetImplCalls>>
  /\ UNCHANGED nCalls
  /\ lastCall' = NoCall
  /\ JobDone

\* faulty variant of the finally handler: the handle is cleared whatever it is
RetFinClobbers ==
  /\ HeadIs("retFin")
  /\ LET r == Head(queue).i IN
       /\ SetHeap(Settle(Popped, <<"CS", r>>, "fulfilled", GameCanceled))
       /\ runningHandle' = 0
  /\ UNCHANGED <<loaded, loadingPromise, resetPromise, lastEnd, events, timer, nLoads,
                 nRuns, nResets, canceledBy, resetImplCalls>>
  /\ UNCHANGED nCalls
  /\ lastCall' = NoCall
  /\ JobDone

\* .finally(() => ...): cancel(), and clear the run handle if it is still this run's
RetFin ==
  /\ HeadIs("retFin")
  /\ LET r == Head(queue).i IN
       /\ SetHeap(Settle(Popped, <<"CS", r>>, "fulfilled", GameCanceled))
       /\ runningHandle' = (IF runningHandle = r THEN 0 ELSE runningHandle)
  /\ UNCHANGED <<loaded, loadingPromise, resetPromise, lastEnd, events, timer, nLoads,
                 nRuns, nResets, canceledBy, resetImplCalls>>
  /\ UNCHANGED nCalls
  /\ lastCall' = NoCall
  /\ JobDone

\* join()
join == IF runningHandle = 0 THEN NoP ELSE <<"RET", runningHandle>>
\* lastGameResult
lastGameResult == lastEnd

\* faulty variant of #resetState: the run handle is kept
resetStateKeepsRun == UNCHANGED runningHandle /\ lastEnd' = Undefined

\* ---- reset() ----------------------------------------------------------------
\* #resetState()
resetState == runningHandle' = 0 /\ lastEnd' = Undefined

\* faulty variant of #doReset with no run handle: resetImpl is invoked anyway
doResetIdleInvokes ==
  /\ EnvTurn
  /\ runningHandle = 0
  /\ CanAlloc
  /\ nCalls' = nCalls + 1
  /\ LET k  == nResets + 1
         h1 == [Heap EXCEPT !.pst[<<"R", k>>] = [st |-> "fulfilled", v |-> Undefined]]
         \* resetPromise.finally(...)
         h2 == Then(h1, <<"R", k>>, Job("resetFin", k, <<"R", k>>))
     IN /\ SetHeap(h2)
        /\ nResets' = k
        /\ resetPromise' = k
        /\ lastCall' = [op |-> "reset", ret |-> <<"R", k>>]
  /\ resetState
  /\ resetImplCalls' = resetImplCalls + 1
  /\ UNCHANGED <<loaded, loadingPromise, events, timer, nLoads, nRuns, canceledBy>>

\* reset() past the check of #resetPromise, with no run handle: #doReset
\* returns Promise.resolve()
doResetIdle ==
  /\ EnvTurn
  /\ runningHandle = 0
  /\ CanAlloc
  /\ nCalls' = nCalls + 1
  /\ LET k  == nResets + 1
         h1 == [Heap EXCEPT !.pst[<<"R", k>>] = [st |-> "fulfilled", v |-> Undefined]]
         \* resetPromise.finally(...)
         h2 == Then(h1, <<"R", k>>, Job("resetFin", k, <<"R", k>>))
     IN /\ SetHeap(h2)
        /\ nResets' = k
        /\ resetPromise' = k
        /\ lastCall' = [op |-> "reset", ret |-> <<"R", k>>]
  /\ resetState
  /\ UNCHANGED <<loaded, loadingPromise, events, timer, nLoads, nRuns, canceledBy,
                 resetImplCalls>>

\* reset() past the check of #resetPromise, with a run handle: cancel(), then
\* race resetImpl() against the timer.
\* resetImpl either returns a promise or throws before returning one.
doResetRunning(throws) ==
  /\ EnvTurn
  /\ runningHandle # 0
  /\ CanAlloc
  /\ nCalls' = nCalls + 1
  /\ LET k  == nResets + 1
         r  == runningHandle
         \* runningHandle.cancel()
         h1 == Settle(Heap, <<"CS", r>>, "fulfilled", GameCanceled)
         \* new Promise(res => setTimeout(res, timeoutMs) ...)
         h2 == NewPromise(h1, <<"TP", k>>)
         \* Promise.race([timer, this.resetImpl()]).then(noop, noop).finally(cleanup)
         h3 == NewPromise(NewPromise(NewPromise(h2, <<"RI", k>>), <<"RP", k>>), <<"R", k>>)
         h4 == Then(h3, <<"TP", k>>, Job("raceR", k, <<"TP", k>>))
         h5 == Then(h4, <<"RI", k>>, Job("raceR", k, <<"RI", k>>))
         h6 == Then(h5, <<"RP", k>>, Job("noopR", k, <<"RP", k>>))
         \* resetPromise.finally(...)
         h7 == Then(h6, <<"R", k>>, Job("resetFin", k, <<"R", k>>))
     IN /\ nResets' = k
        /\ timer' = [timer EXCEPT ![k] = "armed"]
        /\ resetImplCalls' = resetImplCalls + 1
        /\ canceledBy' = [canceledBy EXCEPT ![r] = k]
        /\ IF throws
             THEN /\ SetHeap(h2)
                  /\ UNCHANGED resetPromise
                  /\ lastCall' = [op |-> "reset", ret |-> <<"throw", k>>]
             ELSE /\ SetHeap(h7)
                  /\ resetPromise' = k
                  /\ lastCall' = [op |-> "reset", ret |-> <<"R", k>>]
  /\ resetState
  /\ UNCHANGED <<loaded, loadingPromise, events, nLoads, nRuns>>

\* reset() with no reset promise set and no run handle
ResetIdle == resetPromise = 0 /\ doResetIdle

\* reset() with no reset promise set and a run handle present
ResetRunning(throws) == resetPromise = 0 /\ doResetRunning(throws)

\* faulty variant of reset(): without the check of #resetPromise
ResetIgnoringPending == resetPromise # 0 /\ (doResetIdle \/ doResetRunning(FALSE))

\* reset() while a reset promise is set: returns it
ResetShared ==
  /\ EnvTurn
  /\ resetPromise # 0
  /\ lastCall' = [op |-> "reset", ret |-> <<"R", resetPromise>>]
  /\ UNCHANGED <<fields, events, pst, rx, queue, timer, nLoads, nRuns, nResets,
                 canceledBy, resetImplCalls>>
  /\ UNCHANGED nCalls

\* faulty variant of the timer: it fires without resolving its promise
TimerFireLost(k) ==
  /\ queue = <<>>
  /\ timer[k] = "armed"
  /\ timer' = [timer EXCEPT ![k] = "fired"]
  /\ UNCHANGED <<fields, events, pst, rx, queue, nLoads, nRuns, nResets, canceledBy,
                 resetImplCalls>>
  /\ UNCHANGED nCalls
  /\ lastCall' = NoCall
  /\ UNCHANGED nMicro

\* the timer of setTimeout(res, timeoutMs) fires
TimerFire(k) ==
  /\ queue = <<>>
  /\ timer[k] = "armed"
  /\ timer' = [timer EXCEPT ![k] = "fired"]
  /\ SetHeap(Settle(Heap, <<"TP", k>>, "fulfilled", Undefined))
  /\ UNCHANGED <<fields, events, nLoads, nRuns, nResets, canceledBy, resetImplCalls>>
  /\ UNCHANGED nCalls
  /\ lastCall' = NoCall
  /\ UNCHANGED nMicro

\* the promise returned by resetImpl settles
ResetImplSettle(k, st) ==
  /\ EnvTurn
  /\ Observed(<<"RI", k>>)
  /\ SetHeap(Settle(Heap, <<"RI", k>>, st,
                    IF st = "fulfilled" THEN Undefined ELSE PlainError("ResetErr", k)))
  /\ UNCHANGED <<fields, events, timer, nLoads, nRuns, nResets, canceledBy,
                 resetImplCalls>>
  /\ UNCHANGED nCalls
  /\ lastCall' = NoCall

\* a reaction of Promise.race([timer, resetImpl()])
RaceR ==
  /\ HeadIs("raceR")
  /\ LET k == Head(queue).i
         p == Head(queue).p IN
       SetHeap(Settle(Popped, <<"RP", k>>, pst[p].st, pst[p].v))
  /\ UNCHANGED <<fields, events, timer, nLoads, nRuns, nResets, canceledBy,
                 resetImplCalls>>
  /\ UNCHANGED nCalls
  /\ lastCall' = NoCall
  /\ JobDone

\* .then(() => {}, () => {}): fulfils either way, the finally reaction is next
NoopR ==
  /\ HeadIs("noopR")
  /\ SetHeap([Popped EXCEPT !.q = Append(Tail(queue),
                                         Job("cleanupR", Head(queue).i, Head(queue).p))])
  /\ UNCHANGED <<fields, events, timer, nLoads, nRuns, nResets, canceledBy,
                 resetImplCalls>>
  /\ UNCHANGED nCalls
  /\ lastCall' = NoCall
  /\ JobDone

\* faulty variant of timeoutCleanup: res() without clearTimeout(timeout)
CleanupRKeepsTimer ==
  /\ HeadIs("cleanupR")
  /\ LET k  == Head(queue).i
         h1 == Settle(Popped, <<"TP", k>>, "fulfilled", Undefined)
     IN /\ UNCHANGED timer
        /\ SetHeap([h1 EXCEPT !.q = Append(h1.q, Job("finA", k, <<"R", k>>))])
  /\ UNCHANGED <<fields, events, nLoads, nRuns, nResets, canceledBy, resetImplCalls>>
  /\ UNCHANGED nCalls
  /\ lastCall' = NoCall
  /\ JobDone

\* .finally(timeoutCleanup): clearTimeout(timeout); res()
CleanupR ==
  /\ HeadIs("cleanupR")
  /\ LET k  == Head(queue).i
         h1 == Settle(Popped, <<"TP", k>>, "fulfilled", Undefined)
     IN /\ timer' = [timer EXCEPT ![k] = IF @ = "armed" THEN "cleared" ELSE @]
        /\ SetHeap([h1 EXCEPT !.q = Append(h1.q, Job("finA", k, <<"R", k>>))])
  /\ UNCHANGED <<fields, events, nLoads, nRuns, nResets, canceledBy, resetImplCalls>>
  /\ UNCHANGED nCalls
  /\ lastCall' = NoCall
  /\ JobDone

\* the promise of .finally() adopts the promise its callback wrapper returned:
\* two more microtasks before the promise #doReset returned is fulfilled
FinA ==
  /\ HeadIs("finA")
  /\ SetHeap([Popped EXCEPT !.q = Append(Tail(queue),
                                         Job("finB", Head(queue).i, Head(queue).p))])
  /\ UNCHANGED <<fields, events, timer, nLoads, nRuns, nResets, canceledBy,
                 resetImplCalls>>
  /\ UNCHANGED nCalls
  /\ lastCall' = NoCall
  /\ JobDone

FinB ==
  /\ HeadIs("finB")
  /\ SetHeap(Settle(Popped, <<"R", Head(queue).i>>, "fulfilled", Undefined))
  /\ UNCHANGED <<fields, events, timer, nLoads, nRuns, nResets, canceledBy,
                 resetImplCalls>>
  /\ UNCHANGED nCalls
  /\ lastCall' = NoCall
  /\ JobDone

\* resetPromise.finally(() => { this.#resetPromise = undefined })
ResetFin ==
  /\ HeadIs("resetFin")
  /\ resetPromise' = 0
  /\ SetHeap(Popped)
  /\ UNCHANGED <<loaded, loadingPromise, runningHandle, lastEnd, events, timer, nLoads,
                 nRuns, nResets, canceledBy, resetImplCalls>>
  /\ UNCHANGED nCalls
  /\ lastCall' = NoCall
  /\ JobDone

Next ==
  \/ LoadCall
  \/ \E l \in Ids, st \in {"fulfilled", "rejected"} : LoadImplSettle(l, st)
  \/ \E v \in ProgressInputs : loadingProgressCb(v)
  \/ LoadCont
  \/ LoadFin
  \/ StartThrow
  \/ StartAccept
  \/ \E r \in Ids, status \in {"success", "failure"} : StartImplSettle(r, "fulfilled", status)
  \/ \E r \in Ids : StartImplSettle(r, "rejected", "none")
  \/ ExecLoad
  \/ Race1
  \/ ExecRace1
  \/ Race2
  \/ Catch2
  \/ ExecRace2
  \/ RetThen
  \/ RetCatch
  \/ RetFin
  \/ ResetShared
  \/ ResetIdle
  \/ \E throws \in BOOLEAN : ResetRunning(throws)
  \/ \E k \in Ids : TimerFire(k)
  \/ \E k \in Ids, st \in {"fulfilled", "rejected"} : ResetImplSettle(k, st)
  \/ RaceR
  \/ NoopR
  \/ CleanupR
  \/ FinA
  \/ FinB
  \/ ResetFin

Spec == Init /\ [][Next]_vars

\* the microtask actions and the timers, which the event loop always runs
Microtask ==
  \/ LoadCont \/ LoadFin \/ ExecLoad \/ Race1 \/ ExecRace1 \/ Race2 \/ Catch2
  \/ ExecRace2 \/ RetThen \/ RetCatch \/ RetFin \/ RaceR \/ NoopR \/ CleanupR
  \/ FinA \/ FinB \/ ResetFin

\* Spec with the event loop's guarantees: a queued microtask runs, and an armed
\* timer fires once the microtask queue is empty
FairSpec ==
  /\ Spec
  /\ WF_vars(Microtask)
  /\ \A k \in Ids : WF_vars(TimerFire(k))

\* ---- properties -------------------------------------------------------------
InQueue(k, i) == \E n \in 1..Len(queue) : queue[n].k = k /\ queue[n].i = i

\* this step runs the microtask at the head of the queue, a reaction of kind k
\* of load / run / reset i (a step of the environment taken while microtasks
\* are queued counts in nMicro instead)
JobRuns(k, i) == HeadIs(k) /\ Head(queue).i = i /\ JobDone

\* the positions of the "end" events of run r
EndsOf(r) == {n \in 1..Len(events) : events[n].ev = "end" /\ events[n].run = r}

\* the "loading" / "loaded" events among evs, in order
LoadEvents(evs) ==
  [n \in {m \in 1..Len(evs) : evs[m].ev \in {"loading", "loaded"}} |-> evs[n]]

\* the number of "loading" events without a percentage among evs
Indeterminate(evs) ==
  Cardinality({n \in 1..Len(evs) : evs[n].ev = "loading" /\ evs[n].arg = <<>>})

\* a load is pending: the handle is set and its promise has not settled
LoadPending == loadingPromise # 0 /\ pst[<<"L", loadingPromise>>].st = "pending"

\* the promise reset() returned for reset k settles in this step
ResetSettles(k) == pst[<<"R", k>>].st = "pending" /\ pst'[<<"R", k>>].st # "pending"

\* C1: a start() call made while a run handle is present throws
\* GameAlreadyRunning and changes nothing: the fields (lastGameResult, the run
\* handle, the loading state), the events, every promise and its reactions
\* (so the active run settles as it would have), the microtask queue, and the
\* numbers of loadImpl and startImpl-bearing runs are all unchanged.
C1_StartWhileRunningThrows ==
  [][(lastCall'.op = "start" /\ runningHandle # 0)
       => /\ lastCall'.ret = Thrown(GameAlreadyRunning)
          /\ UNCHANGED <<fields, events, pst, rx, queue, timer, nLoads, nRuns>>]_vars

\* C1 witness: start() has just thrown while run 1, whose load is pending, is active
C1_Witness ==
  /\ lastCall = [op |-> "start", ret |-> Thrown(GameAlreadyRunning)]
  /\ runningHandle = 1 /\ join = <<"RET", 1>>
  /\ pst[<<"RET", 1>>].st = "pending"

\* C2: while a load is pending, a load() call returns the pending promise itself,
\* a start() call makes its executor wait on that same promise, no step invokes
\* loadImpl again or emits another indeterminate "loading" event; and at no time
\* are two promises of loadImpl pending.
C2_PendingLoadIsShared ==
  /\ [](Cardinality({l \in Ids : pst[<<"PI", l>>].st = "pending"}) <= 1)
  /\ [][LoadPending
         => /\ nLoads' = nLoads
            /\ Indeterminate(events') = Indeterminate(events)
            /\ lastCall'.op = "load" => lastCall'.ret = <<"L", loadingPromise>>
            /\ (lastCall'.op = "start" /\ nRuns' # nRuns)
                 => \E n \in 1..Len(rx'[<<"L", loadingPromise>>]) :
                      rx'[<<"L", loadingPromise>>][n]
                        = Job("execLoad", nRuns', <<"L", loadingPromise>>)]_vars

\* C2 witness: a load() call has just returned the promise of the load that an
\* earlier start() began and that is still pending
C2_Witness ==
  /\ lastCall = [op |-> "load", ret |-> <<"L", 1>>]
  /\ nRuns = 1 /\ nLoads = 1 /\ LoadPending
  /\ pst[<<"PI", 1>>].st = "pending"

\* C3: once loaded is true it stays true, no step invokes loadImpl or emits a
\* "loading" or "loaded" event, and load() returns an already resolved promise.
C3_LoadedIsFinal ==
  [][loaded
       => /\ loaded'
          /\ nLoads' = nLoads
          /\ LoadEvents(events') = LoadEvents(events)
          /\ lastCall'.op = "load" => lastCall'.ret = Resolved]_vars

\* C3 witness: after a load that succeeded and a reset, a second run has just
\* been started without a second loadImpl call
C3_Witness ==
  /\ loaded /\ nLoads = 1 /\ nResets >= 1
  /\ lastCall = [op |-> "start", ret |-> <<"RET", 2>>]

C6_CanceledRunEndsCanceled ==
  \A r \in 1..nRuns :
    canceledBy[r] # 0
      => /\ pst[<<"RET", r>>].st # "fulfilled"
         /\ pst[<<"RET", r>>].st = "rejected" => pst[<<"RET", r>>].v = GameCanceled
         /\ Cardinality(EndsOf(r)) <= 1
         /\ \A n \in EndsOf(r) : events[n].arg = GameCanceled

\* C7 as stated: in the step in which a promise returned by reset() settles, no
\* run is active (join() is undefined).
C7_NoRunWhenResetSettles ==
  [][\A k \in Ids : ResetSettles(k) => join' = NoP]_vars

\* C8 as stated: in the step in which a promise returned by reset() settles,
\* lastGameResult is undefined.
C8_NoResultWhenResetSettles ==
  [][\A k \in Ids : ResetSettles(k) => lastGameResult' = Undefined]_vars

\* C9 as stated: in the step in which a promise returned by reset() settles, the
\* future of the run that this reset cancelled has settled.
C9_RunSettledWhenResetSettles ==
  [][\A k \in Ids : ResetSettles(k)
        => \A r \in 1..nRuns : canceledBy[r] = k => pst'[<<"RET", r>>].st # "pending"]_vars

\* C10: a reset that cancelled a run settles whether or not resetImpl settles:
\* once its timer is armed its promise is eventually fulfilled; if resetImpl's
\* promise is still pending when it is fulfilled then the timer has fired; while
\* it is pending either its timer is still armed or a reaction of this reset is
\* queued, so from the firing of the timer to the fulfilment there are only
\* microtasks (no later macrotask); and when it is fulfilled the run it
\* cancelled is not the active run.
C10_ResetSettlesAtTimeout ==
  /\ \A k \in Ids :
       (timer[k] = "armed" /\ pst[<<"R", k>>].st = "pending")
         ~> pst[<<"R", k>>].st = "fulfilled"
  /\ [](\A k \in 1..nResets :
          /\ (pst[<<"R", k>>].st = "fulfilled" /\ pst[<<"RI", k>>].st = "pending")
               => timer[k] = "fired"
          /\ pst[<<"R", k>>].st = "pending"
               => \/ timer[k] = "armed"
                  \/ \E j \in {"raceR", "noopR", "cleanupR", "finA", "finB"} : InQueue(j, k)
          /\ pst[<<"R", k>>].st = "fulfilled"
               => \A r \in 1..nRuns : canceledBy[r] = k => runningHandle # r)

\* C10 witness: resetImpl's promise is still pending, the timer has fired and the
\* promise of the reset is fulfilled
C10_Witness ==
  \E k \in 1..nResets :
    /\ pst[<<"RI", k>>].st = "pending" /\ timer[k] = "fired"
    /\ pst[<<"R", k>>].st = "fulfilled"
    /\ \E r \in 1..nRuns : canceledBy[r] = k /\ runningHandle # r

\* C11 as stated: no reset() call throws, no promise returned by reset() is
\* rejected, and when a reset() call returns no run is active and lastGameResult
\* is undefined.
C11_ResetIsInfallible ==
  /\ lastCall.op = "reset"
       => /\ lastCall.ret[1] = "R"
          /\ join = NoP
          /\ lastGameResult = Undefined
  /\ \A k \in Ids : pst[<<"R", k>>].st # "rejected"

\* a reset is pending: the handle is set and its promise has not settled
ResetPending == resetPromise # 0 /\ pst[<<"R", resetPromise>>].st = "pending"

\* C12: while a reset is pending, a reset() call returns the pending promise
\* itself, and no step invokes resetImpl, arms a timer or creates another reset
\* promise; at no time are two promises returned by reset() pending.
C12_PendingResetIsShared ==
  /\ [](Cardinality({k \in Ids : pst[<<"R", k>>].st = "pending"}) <= 1)
  /\ [][ResetPending
         => /\ lastCall'.op = "reset" => lastCall'.ret = <<"R", resetPromise>>
            /\ resetImplCalls' = resetImplCalls
            /\ nResets' = nResets
            /\ \A k \in Ids : timer'[k] = "armed" => timer[k] = "armed"]_vars

\* C12 witness: a reset() call has just returned the pending promise of the
\* reset that cancelled run 1, although run 2 was started in the meantime
C12_Witness ==
  /\ lastCall = [op |-> "reset", ret |-> <<"R", 1>>]
  /\ ResetPending /\ canceledBy[1] = 1 /\ runningHandle = 2
  /\ nResets = 1 /\ resetImplCalls = 1

\* C13: a run that was not reset and whose startImpl promise fulfilled with
\* outcome O settles only by fulfilling with O; the then handler of start() is
\* the first reaction of the start() future, so code awaiting that future resumes
\* in the state the handler leaves, and in that state lastGameResult is O; before
\* the handler has run the run has no "end" event, from then on it has exactly
\* one, carrying O.
C13_ResolvedRunIsReported ==
  /\ [](\A r \in 1..nRuns :
          /\ (canceledBy[r] = 0 /\ pst[<<"GP", r>>].st = "fulfilled"
                /\ pst[<<"RET", r>>].st # "pending")
               => pst[<<"RET", r>>] = pst[<<"GP", r>>]
          /\ pst[<<"RET", r>>].st = "pending"
               => rx[<<"RET", r>>] = <<Job("retThen", r, <<"RET", r>>)>>
          /\ pst[<<"RET", r>>].st = "fulfilled"
               => IF InQueue("retThen", r) THEN EndsOf(r) = {}
                  ELSE /\ Cardinality(EndsOf(r)) = 1
                       /\ \A n \in EndsOf(r) : events[n].arg = pst[<<"RET", r>>].v)
  /\ [][\A r \in 1..nRuns :
          (JobRuns("retThen", r) /\ pst[<<"RET", r>>].st = "fulfilled")
            => /\ lastGameResult' = pst[<<"RET", r>>].v
               /\ Cardinality(EndsOf(r)') = 1]_vars

\* C13 witness: the then handler of run 1 has just run (the catch reaction is
\* queued): the future is fulfilled with the success outcome of startImpl, which
\* is lastGameResult and the argument of the run's one "end" event
C13_Witness ==
  /\ pst[<<"RET", 1>>] = [st |-> "fulfilled", v |-> GameOutcome(GameEndStatus.Success, 1)]
  /\ canceledBy[1] = 0
  /\ InQueue("retCatch", 1)
  /\ lastGameResult = GameOutcome(GameEndStatus.Success, 1)
  /\ \E n \in EndsOf(1) : events[n].arg = lastGameResult

\* C14 as stated: a start() future is rejected only with GameCanceled (a failure
\* of loadImpl or startImpl resolves it with an Error outcome).
C14_RejectsOnlyWithGameCanceled ==
  \A r \in 1..nRuns :
    pst[<<"RET", r>>].st = "rejected" => pst[<<"RET", r>>].v = GameCanceled

\* C14 amended: a start() future fulfils only with the outcome startImpl resolved
\* with, never with an Error outcome made from a failure; when startImpl rejects
\* and the run was not reset the future rejects with the very value startImpl
\* rejected with; when it settles before startImpl was invoked it rejects with
\* the very value the load rejected with; it rejects with nothing but
\* GameCanceled or such a value.
C14_FailureRejectsWithRawError ==
  \A r \in 1..nRuns :
    LET ret == pst[<<"RET", r>>]
        gp  == pst[<<"GP", r>>] IN
      /\ ret.st = "fulfilled" => (gp.st = "fulfilled" /\ ret.v = gp.v)
      /\ (ret.st # "pending" /\ gp.st = "rejected" /\ canceledBy[r] = 0) => ret = gp
      /\ (ret.st # "pending" /\ gp.st = "none")
           => /\ ret.st = "rejected"
              /\ \E l \in 1..nLoads : pst[<<"L", l>>] = ret
      /\ ret.st = "rejected"
           => \/ ret.v = GameCanceled
              \/ gp = ret
              \/ \E l \in 1..nLoads : pst[<<"L", l>>] = ret

\* C14 witness: startImpl of run 1, which was not reset, rejected, and the
\* start() future is rejected with that same value
C14_Witness ==
  /\ canceledBy[1] = 0
  /\ pst[<<"GP", 1>>] = [st |-> "rejected", v |-> PlainError("StartErr", 1)]
  /\ pst[<<"RET", 1>>] = pst[<<"GP", 1>>]

\* the Error outcome the catch handler of start() makes of a rejection with e
ErrorOutcome(e) == [status |-> GameEndStatus.Error, metadata |-> newError(e)]

C16_JoinTracksRun ==
  /\ [](/\ (lastCall.op = "start" /\ lastCall.ret[1] = "RET") => join = lastCall.ret
        /\ join # NoP => join = <<"RET", runningHandle>>
        /\ (queue = <<>> /\ join # NoP) => pst[join].st = "pending")
  /\ [][\A r \in 1..nRuns :
          (JobRuns("retThen", r) /\ canceledBy[r] = 0)
            => join' = NoP]_vars

\* C17 as stated: at no time are the promises of two startImpl invocations
\* pending.
C17_OneStartImplInFlight ==
  Cardinality({r \in Ids : pst[<<"GP", r>>].st = "pending"}) <= 1

StartedOf(evs, r) ==
  {n \in 1..Len(evs) : evs[n].ev = "started" /\ evs[n].run = r}

\* C19: the events are in causal order: every "loaded" event has an
\* indeterminate "loading" event before it and no "loading" event after it;
\* every "end" event of a run has the "started" event of that run before it;
\* and the "started" event of a run is appended by the very step of the
\* accepted start() call that creates the run, as the last event of that step,
\* and by no other step.
C19_EventsInCausalOrder ==
  /\ [](\A n \in 1..Len(events) :
          /\ events[n].ev = "loaded"
               => /\ \E m \in 1..(n - 1) :
                       events[m].ev = "loading" /\ events[m].arg = <<>>
                  /\ \A m \in (n + 1)..Len(events) : events[m].ev # "loading"
          /\ events[n].ev = "end"
               => \E m \in 1..(n - 1) :
                    events[m].ev = "started" /\ events[m].run = events[n].run)
  /\ [][\A r \in Ids :
          /\ (lastCall'.op = "start" /\ lastCall'.ret = <<"RET", r>>
                /\ lastCall' # lastCall)
               => /\ StartedOf(events, r) = {}
                  /\ StartedOf(events', r) = {Len(events')}
          /\ StartedOf(events', r) # StartedOf(events, r)
               => lastCall' = [op |-> "start", ret |-> <<"RET", r>>]]_vars

\* C19 witness: a start() loaded the game with a progress report in between,
\* the run has ended, and all four kinds of event have been emitted
C19_Witness ==
  /\ \E n \in 1..Len(events) : events[n].ev = "loading" /\ events[n].arg # <<>>
  /\ \E n \in 1..Len(events) : events[n].ev = "loaded"
  /\ StartedOf(events, 1) # {}
  /\ EndsOf(1) # {}
  /\ loaded
  /\ nCalls = MaxCalls

\* startImpl has been invoked for run r: its promise exists
StartImplInvoked(ps, r) == ps[<<"GP", r>>].st # "none"

\* C20: startImpl is invoked only after a successful load: in every reachable
\* state in which startImpl has been invoked for some run, loaded is true; the
\* invocation is made by the executor of start() resuming from a fulfilled
\* load(); when the executor resumes from a rejected load(), startImpl is not
\* invoked and the run's promise rejects with the load's error, and such a run
\* never has a startImpl invocation.
C20_StartImplOnlyWhenLoaded ==
  /\ [](\A r \in Ids :
          /\ StartImplInvoked(pst, r) => loaded
          /\ (/\ pst[<<"RET", r>>].st = "rejected"
              /\ "error" \in DOMAIN pst[<<"RET", r>>].v
              /\ pst[<<"RET", r>>].v.error = "LoadErr")
               => ~StartImplInvoked(pst, r))
  /\ [][\A r \in Ids :
          /\ (~StartImplInvoked(pst, r) /\ StartImplInvoked(pst', r))
               => /\ JobRuns("execLoad", r)
                  /\ StOf(Heap, Head(queue).p) = "fulfilled"
                  /\ loaded
          /\ (JobRuns("execLoad", r)
                /\ StOf(Heap, Head(queue).p) = "rejected")
               => /\ ~StartImplInvoked(pst', r)
                  /\ pst'[<<"RET", r>>] =
                       [st |-> "rejected", v |-> ValOf(Heap, Head(queue).p)]]_vars

\* C20 witness: the load of run 1 failed and startImpl was not invoked for it;
\* run 2 loaded the game and startImpl was invoked for it
C20_Witness ==
  /\ pst[<<"RET", 1>>] = [st |-> "rejected", v |-> PlainError("LoadErr", 1)]
  /\ ~StartImplInvoked(pst, 1)
  /\ StartImplInvoked(pst, 2)
  /\ loaded

\* ---- newError as a function of its argument ----------------------------------
\* The values newError may be given: what the implementations reject with, the
\* symbols of the module, and errors already wrapped by this game's class or by
\* the class of another game (every GameError is built by the constructor, so
\* its originalError is never a GameError).
OtherGame == "OtherGame"
ErrorCauses ==
  {Undefined, GameCanceled, GameAlreadyRunning}
    \cup {PlainError(w, n) : w \in {"LoadErr", "StartErr", "ResetErr"}, n \in Ids}
ErrorInputs ==
  ErrorCauses
    \cup {GameErrorConstructor(g, c) : g \in {GameName, OtherGame},
                                        c \in {x \in ErrorCauses : ~IsSymbol(x)}}

\* lastEnd holds the value at hand: an input first, then the result of the
\* calls made on it (TypeError when the call threw)
ErrorInit ==
  /\ lastEnd \in ErrorInputs
  /\ loaded = FALSE /\ loadingPromise = 0 /\ runningHandle = 0 /\ resetPromise = 0
  /\ events = <<>>
  /\ pst = [p \in PIds |-> NoneP]
  /\ rx = [p \in PIds |-> <<>>]
  /\ queue = <<>>
  /\ timer = [k \in Ids |-> "none"]
  /\ nLoads = 0 /\ nRuns = 0 /\ nResets = 0 /\ nCalls = 0 /\ nMicro = 0
  /\ canceledBy = [r \in Ids |-> 0]
  /\ resetImplCalls = 0
  /\ lastCall = NoCall

\* this.newError(value)
NewErrorCall ==
  /\ CanAlloc
  /\ lastEnd # TypeError
  /\ nCalls' = nCalls + 1
  /\ lastEnd' = newError(lastEnd)
  /\ lastCall' = [op |-> "newError", ret |-> NoP]
  /\ UNCHANGED <<loaded, loadingPromise, runningHandle, resetPromise, events, pst,
                 rx, queue, timer, nLoads, nRuns, nResets, nMicro, canceledBy,
                 resetImplCalls>>

\* new OtherErrorClass(value): the value is wrapped by another game
OtherGameWraps ==
  /\ CanAlloc
  /\ lastEnd # TypeError
  /\ nCalls' = nCalls + 1
  /\ lastEnd' = GameErrorConstructor(OtherGame, lastEnd)
  /\ lastCall' = [op |-> "new", ret |-> NoP]
  /\ UNCHANGED <<loaded, loadingPromise, runningHandle, resetPromise, events, pst,
                 rx, queue, timer, nLoads, nRuns, nResets, nMicro, canceledBy,
                 resetImplCalls>>

ErrorNext == NewErrorCall \/ OtherGameWraps

ErrorSpec == ErrorInit /\ [][ErrorNext]_vars

\* e is an instance of this game's ErrorClass
IsOwnError(e) == IsGameError(e) /\ e.game = GameName

\* C21 as stated: newError returns its argument when that is an instance of
\* this game's ErrorClass, and for any other argument returns an instance of
\* this game's ErrorClass whose originalError is the argument; the result's
\* originalError is never itself a wrapper.
C21_NewErrorWrapsOnce ==
  [][lastCall'.op = "newError"
       => /\ IsOwnError(lastEnd) => lastEnd' = lastEnd
          /\ ~IsOwnError(lastEnd)
               => /\ IsOwnError(lastEnd')
                  /\ lastEnd'.originalError = lastEnd
          /\ IsOwnError(lastEnd') /\ ~IsGameError(lastEnd'.originalError)]_vars

\* ---- the older variant of GameBase --------------------------------------------
\* The older class has the fields #loaded, #running, #resetPromise and #lastEnd,
\* an async start(forceRestart), an async #load, reset(infallible) and an
\* async #doReset. It is modelled on the same variables: runningHandle is
\* #running (1: true, 0: false), lastEnd is #lastEnd, and of the promises PI is
\* the loader's, L the one #load returns, GP the one _start returns, RET the one
\* start returns, RI the one _reset returns and R the one #doReset returns.
\* timer[r] = "armed" while the listener onEndCb of start call r is registered
\* on "end"; canceledBy[r] = 1 when start call r was made with forceRestart and
\* found the game running. The game implementation emits "end" itself.
Null == [tag |-> "null"]
OldEndStatus == {"success", "canceled"}

\* the name under which lastCall records reset(infallible)
OldResetOp(infallible) == IF infallible THEN "reset(true)" ELSE "reset(false)"

OldInit ==
  /\ loaded = FALSE
  /\ loadingPromise = 0
  /\ runningHandle = 0
  /\ resetPromise = 0
  /\ lastEnd = Null
  /\ events = <<>>
  /\ pst = [p \in PIds |-> NoneP]
  /\ rx = [p \in PIds |-> <<>>]
  /\ queue = <<>>
  /\ timer = [k \in Ids |-> "none"]
  /\ nLoads = 0 /\ nRuns = 0 /\ nResets = 0 /\ nCalls = 0 /\ nMicro = 0
  /\ canceledBy = [r \in Ids |-> 0]
  /\ resetImplCalls = 0
  /\ lastCall = NoCall

\* `await this.#load()` in start call r: #load up to its own await, then the
\* await of the promise it returned
OldLoad(h, r) ==
  IF loaded
    THEN [h |-> Then(h, Resolved, Job("oldStartLoaded", r, Resolved)),
          ev |-> events, n |-> nLoads]
    ELSE LET l  == nLoads + 1
             h1 == NewPromise(NewPromise(h, <<"PI", l>>), <<"L", l>>)
             h2 == Then(h1, <<"PI", l>>, Job("oldLoadCont", l, <<"PI", l>>))
             h3 == Then(h2, <<"L", l>>, Job("oldStartLoaded", r, <<"L", l>>))
         IN [h |-> h3,
             ev |-> Append(events, [ev |-> "loading", arg |-> <<>>, run |-> 0]),
             n |-> l]

\* start(forceRestart) up to `await this.#load()`
OldStart(forceRestart) ==
  /\ EnvTurn
  /\ CanAlloc
  /\ nCalls' = nCalls + 1
  /\ LET r  == nRuns + 1
         h0 == NewPromise(Heap, <<"RET", r>>) IN
       /\ IF runningHandle # 0 /\ ~forceRestart
            THEN /\ SetHeap(Settle(h0, <<"RET", r>>, "fulfilled", Undefined))
                 /\ UNCHANGED <<events, nLoads, canceledBy>>
            ELSE LET res == OldLoad(h0, r) IN
                   /\ SetHeap(res.h)
                   /\ events' = res.ev
                   /\ nLoads' = res.n
                   /\ canceledBy' = [canceledBy EXCEPT
                                       ![r] = IF runningHandle # 0 THEN 1 ELSE 0]
       /\ nRuns' = r
       /\ lastCall' = [op |-> "start", ret |-> <<"RET", r>>]
  /\ UNCHANGED <<loaded, loadingPromise, runningHandle, resetPromise, lastEnd, timer,
                 nResets, resetImplCalls>>

\* the promise returned by the loader settles
OldLoaderSettle(l, st) ==
  /\ EnvTurn
  /\ Observed(<<"PI", l>>)
  /\ SetHeap(Settle(Heap, <<"PI", l>>, st,
                    IF st = "fulfilled" THEN Undefined ELSE PlainError("LoadErr", l)))
  /\ UNCHANGED <<fields, events, timer, nLoads, nRuns, nResets, canceledBy,
                 resetImplCalls>>
  /\ UNCHANGED nCalls
  /\ lastCall' = NoCall

\* #load resumes after `await loader.call(this)`
OldLoadCont ==
  /\ HeadIs("oldLoadCont")
  /\ LET l == Head(queue).i
         pi == pst[<<"PI", l>>] IN
       IF pi.st = "fulfilled"
         THEN /\ loaded' = TRUE
              /\ Emit("loaded", <<>>, 0)
              /\ SetHeap(Settle(Popped, <<"L", l>>, "fulfilled", Undefined))
         ELSE /\ UNCHANGED loaded
              /\ Emit("error", <<newError(pi.v)>>, 0)
              /\ SetHeap(Settle(Popped, <<"L", l>>, "rejected", pi.v))
  /\ UNCHANGED <<loadingPromise, runningHandle, resetPromise, lastEnd, timer, nLoads,
                 nRuns, nResets, canceledBy, resetImplCalls>>
  /\ UNCHANGED nCalls
  /\ lastCall' = NoCall
  /\ JobDone

\* start resumes after `await this.#load()`: "starting", the listener on "end",
\* and the call of _start
OldStartLoaded ==
  /\ HeadIs("oldStartLoaded")
  /\ LET r == Head(queue).i
         p == Head(queue).p
         h0 == Popped IN
       IF StOf(h0, p) = "rejected"
         THEN /\ SetHeap(Settle(h0, <<"RET", r>>, "rejected", ValOf(h0, p)))
              /\ UNCHANGED <<events, timer>>
         ELSE /\ Emit("starting", <<>>, r)
              /\ timer' = [timer EXCEPT ![r] = "armed"]
              /\ SetHeap(Then(NewPromise(h0, <<"GP", r>>), <<"GP", r>>,
                              Job("oldStartCont", r, <<"GP", r>>)))
  /\ UNCHANGED <<fields, nLoads, nRuns, nResets, canceledBy, resetImplCalls>>
  /\ UNCHANGED nCalls
  /\ lastCall' = NoCall
  /\ JobDone

\* the promise returned by _start settles
OldStartImplSettle(r, st) ==
  /\ EnvTurn
  /\ Observed(<<"GP", r>>)
  /\ SetHeap(Settle(Heap, <<"GP", r>>, st,
                    IF st = "fulfilled" THEN Undefined ELSE PlainError("StartErr", r)))
  /\ UNCHANGED <<fields, events, timer, nLoads, nRuns, nResets, canceledBy,
                 resetImplCalls>>
  /\ UNCHANGED nCalls
  /\ lastCall' = NoCall

\* start resumes after `await this._start()`; the finally removes the listener
OldStartCont ==
  /\ HeadIs("oldStartCont")
  /\ LET r == Head(queue).i
         gp == pst[<<"GP", r>>] IN
       /\ IF gp.st = "fulfilled"
            THEN /\ runningHandle' = 1
                 /\ Emit("started", <<>>, r)
                 /\ SetHeap(Settle(Popped, <<"RET", r>>, "fulfilled", Undefined))
            ELSE /\ UNCHANGED runningHandle
                 /\ Emit("error", <<newError(gp.v)>>, r)
                 /\ SetHeap(Settle(Popped, <<"RET", r>>, "rejected", newError(gp.v)))
       /\ timer' = [timer EXCEPT ![r] = "none"]
  /\ UNCHANGED <<loaded, loadingPromise, resetPromise, lastEnd, nLoads, nRuns, nResets,
                 canceledBy, resetImplCalls>>
  /\ UNCHANGED nCalls
  /\ lastCall' = NoCall
  /\ JobDone

\* the game emits "end": every registered onEndCb runs once
OldGameEnd(status) ==
  /\ EnvTurn
  /\ CanAlloc
  /\ nCalls' = nCalls + 1
  /\ \E r \in Ids : pst[<<"GP", r>>].st # "none"
  /\ LET endMetadata == [status |-> status, metadata |-> Undefined] IN
       /\ Emit("end", endMetadata, 0)
       /\ IF \E r \in Ids : timer[r] = "armed"
            THEN /\ runningHandle' = 0
                 /\ lastEnd' = endMetadata
                 /\ timer' = [k \in Ids |-> "none"]
            ELSE UNCHANGED <<runningHandle, lastEnd, timer>>
  /\ UNCHANGED <<loaded, loadingPromise, resetPromise, pst, rx, queue, nLoads, nRuns,
                 nResets, canceledBy, resetImplCalls>>
  /\ lastCall' = NoCall

\* reset(infallible) while a reset promise is stored
OldResetShared(infallible) ==
  /\ EnvTurn
  /\ resetPromise # 0
  /\ lastCall' = [op |-> OldResetOp(infallible), ret |-> <<"R", resetPromise>>]
  /\ UNCHANGED <<fields, events, pst, rx, queue, timer, nLoads, nRuns, nResets, nCalls,
                 canceledBy, resetImplCalls>>

\* reset(infallible) with #running false: #doReset resets the state and returns
OldResetIdle(infallible) ==
  /\ EnvTurn
  /\ resetPromise = 0
  /\ runningHandle = 0
  /\ CanAlloc
  /\ nCalls' = nCalls + 1
  /\ LET k  == nResets + 1
         h1 == Settle(NewPromise(Heap, <<"R", k>>), <<"R", k>>, "fulfilled", Undefined)
     IN /\ SetHeap(Then(h1, <<"R", k>>, Job("oldResetFin", k, <<"R", k>>)))
        /\ resetPromise' = k
        /\ nResets' = k
        /\ lastCall' = [op |-> OldResetOp(infallible), ret |-> <<"R", k>>]
  /\ runningHandle' = 0
  /\ lastEnd' = Null
  /\ UNCHANGED <<loaded, loadingPromise, events, timer, nLoads, nRuns, canceledBy,
                 resetImplCalls>>

\* faulty variant of the end of #doReset: a failure of _reset rejects the
\* promise whatever infallible is
OldResetOutcomeFallible(h, k, infallible, failed, e) ==
  [h  |-> IF failed
            THEN Settle(h, <<"R", k>>, "rejected", newError(e))
            ELSE Settle(h, <<"R", k>>, "fulfilled", Undefined),
   ev |-> IF failed
            THEN Append(events, [ev |-> "error", arg |-> <<newError(e)>>, run |-> 0])
            ELSE events]

\* what #doReset does once _reset has thrown or its promise has settled: the
\* "error" event for a failure, resetState, and the settlement of its promise
OldResetOutcome(h, k, infallible, failed, e) ==
  [h  |-> IF failed /\ ~infallible
            THEN Settle(h, <<"R", k>>, "rejected", newError(e))
            ELSE Settle(h, <<"R", k>>, "fulfilled", Undefined),
   ev |-> IF failed
            THEN Append(events, [ev |-> "error", arg |-> <<newError(e)>>, run |-> 0])
            ELSE events]

\* reset(infallible) with #running true: #doReset calls _reset, which throws
\* at once or returns a promise
OldResetRunning(infallible, throws) ==
  /\ EnvTurn
  /\ resetPromise = 0
  /\ runningHandle # 0
  /\ CanAlloc
  /\ nCalls' = nCalls + 1
  /\ resetImplCalls' = resetImplCalls + 1
  /\ LET k  == nResets + 1
         h0 == NewPromise(Heap, <<"R", k>>) IN
       /\ IF throws
            THEN LET out == OldResetOutcome(h0, k, infallible, TRUE,
                                            PlainError("ResetErr", k)) IN
                   /\ SetHeap(Then(out.h, <<"R", k>>, Job("oldResetFin", k, <<"R", k>>)))
                   /\ events' = out.ev
                   /\ runningHandle' = 0
                   /\ lastEnd' = Null
            ELSE LET h1 == NewPromise(h0, <<"RI", k>>)
                     h2 == Then(h1, <<"RI", k>>,
                                Job(IF infallible THEN "oldResetCont"
                                    ELSE "oldResetContFallible", k, <<"RI", k>>))
                 IN /\ SetHeap(Then(h2, <<"R", k>>, Job("oldResetFin", k, <<"R", k>>)))
                    /\ UNCHANGED <<events, runningHandle, lastEnd>>
       /\ resetPromise' = k
       /\ nResets' = k
       /\ lastCall' = [op |-> OldResetOp(infallible), ret |-> <<"R", k>>]
  /\ UNCHANGED <<loaded, loadingPromise, timer, nLoads, nRuns, canceledBy>>

\* the promise returned by _reset settles
OldResetImplSettle(k, st) ==
  /\ EnvTurn
  /\ Observed(<<"RI", k>>)
  /\ SetHeap(Settle(Heap, <<"RI", k>>, st,
                    IF st = "fulfilled" THEN Undefined ELSE PlainError("ResetErr", k)))
  /\ UNCHANGED <<fields, events, timer, nLoads, nRuns, nResets, canceledBy,
                 resetImplCalls>>
  /\ UNCHANGED nCalls
  /\ lastCall' = NoCall

\* #doReset resumes after `await this._reset()`
OldDoResetCont(infallible) ==
  /\ HeadIs(IF infallible THEN "oldResetCont" ELSE "oldResetContFallible")
  /\ LET k   == Head(queue).i
         ri  == pst[<<"RI", k>>]
         out == OldResetOutcome(Popped, k, infallible, ri.st = "rejected", ri.v) IN
       /\ SetHeap(out.h)
       /\ events' = out.ev
  /\ runningHandle' = 0
  /\ lastEnd' = Null
  /\ UNCHANGED <<loaded, loadingPromise, resetPromise, timer, nLoads, nRuns, nResets,
                 canceledBy, resetImplCalls>>
  /\ UNCHANGED nCalls
  /\ lastCall' = NoCall
  /\ JobDone

\* this.#resetPromise.finally(() => { this.#resetPromise = undefined })
OldResetFin ==
  /\ HeadIs("oldResetFin")
  /\ resetPromise' = 0
  /\ SetHeap(Popped)
  /\ UNCHANGED <<loaded, loadingPromise, runningHandle, lastEnd, events, timer, nLoads,
                 nRuns, nResets, canceledBy, resetImplCalls>>
  /\ UNCHANGED nCalls
  /\ lastCall' = NoCall
  /\ JobDone

OldNext ==
  \/ \E forceRestart \in BOOLEAN : OldStart(forceRestart)
  \/ \E l \in Ids, st \in {"fulfilled", "rejected"} : OldLoaderSettle(l, st)
  \/ OldLoadCont
  \/ OldStartLoaded
  \/ \E r \in Ids, st \in {"fulfilled", "rejected"} : OldStartImplSettle(r, st)
  \/ OldStartCont
  \/ \E status \in OldEndStatus : OldGameEnd(status)
  \/ \E infallible \in BOOLEAN : OldResetShared(infallible)
  \/ \E infallible \in BOOLEAN : OldResetIdle(infallible)
  \/ \E infallible, throws \in BOOLEAN : OldResetRunning(infallible, throws)
  \/ \E k \in Ids, st \in {"fulfilled", "rejected"} : OldResetImplSettle(k, st)
  \/ \E infallible \in BOOLEAN : OldDoResetCont(infallible)
  \/ OldResetFin

OldSpec == OldInit /\ [][OldNext]_vars

\* the "error" event the older class emits for the value e
OldErrorEvent(e) == [ev |-> "error", arg |-> <<newError(e)>>, run |-> 0]

\* C22 (older variant): when reset(infallible) finds the game running and
\* _reset fails, by throwing in the call or by rejecting its promise, #doReset
\* emits "error" with the wrapped error and sets #running to false and #lastEnd
\* to null whatever infallible is; the promise of the reset is fulfilled when
\* infallible is true and rejected with the wrapped error when it is false; a
\* reset() call made while the promise of a reset is pending returns that
\* promise and starts nothing.
C22_OldResetReportsFailure ==
  /\ [][\A k \in Ids : \A infallible \in BOOLEAN :
          LET e == PlainError("ResetErr", k)
              failed == /\ events' = Append(events, OldErrorEvent(e))
                        /\ runningHandle' = 0
                        /\ lastEnd' = Null
                        /\ pst'[<<"R", k>>] =
                             IF infallible
                               THEN [st |-> "fulfilled", v |-> Undefined]
                               ELSE [st |-> "rejected", v |-> newError(e)]
          IN /\ (/\ lastCall' = [op |-> OldResetOp(infallible), ret |-> <<"R", k>>]
                 /\ nResets' = k /\ nResets = k - 1
                 /\ runningHandle # 0
                 /\ pst'[<<"RI", k>>].st = "none")
                  => failed
             /\ (/\ JobRuns(IF infallible THEN "oldResetCont"
                            ELSE "oldResetContFallible", k)
                 /\ pst[<<"RI", k>>].st = "rejected")
                  => failed]_vars
  /\ [][\A infallible \in BOOLEAN :
          (/\ resetPromise # 0
           /\ pst[<<"R", resetPromise>>].st = "pending"
           /\ lastCall'.op = OldResetOp(infallible))
            => /\ lastCall'.ret = <<"R", resetPromise>>
               /\ UNCHANGED <<resetPromise, nResets, resetImplCalls, pst, events>>]_vars

\* C22 witness: the game ended once (the loader and _start succeeded), then
\* reset(false) found it running and the promise of _reset rejected: the reset
\* promise is rejected with the wrapped error, "error" is the last event, and
\* #running and #lastEnd are cleared
C22_Witness ==
  /\ nResets = 1
  /\ pst[<<"RI", 1>>].st = "rejected"
  /\ pst[<<"R", 1>>] = [st |-> "rejected", v |-> newError(PlainError("ResetErr", 1))]
  /\ events # <<>>
  /\ events[Len(events)] = OldErrorEvent(PlainError("ResetErr", 1))
  /\ \E n \in 1..Len(events) : events[n].ev = "end"
  /\ runningHandle = 0
  /\ lastEnd = Null

\* C23 (older variant) as stated: a start(true) call that finds the game
\* running resets it before starting it again, so when that call goes on to
\* invoke _start, _reset has been invoked and #running is false; a start()
\* call without forceRestart that finds the game running emits nothing, invokes
\* nothing and returns.
C23_OldForceRestartResets ==
  /\ [][\A r \in Ids :
          (/\ JobRuns("oldStartLoaded", r)
           /\ canceledBy[r] = 1
           /\ pst'[<<"GP", r>>].st # "none")
            => /\ resetImplCalls > 0
               /\ runningHandle = 0]_vars
  /\ [][\A r \in Ids :
          (/\ lastCall' = [op |-> "start", ret |-> <<"RET", r>>]
           /\ nRuns' = r /\ nRuns = r - 1
           /\ runningHandle # 0
           /\ canceledBy'[r] = 0)
            => /\ pst'[<<"RET", r>>] = [st |-> "fulfilled", v |-> Undefined]
               /\ pst'[<<"GP", r>>].st = "none"
               /\ UNCHANGED <<events, queue, rx, fields, nLoads, resetImplCalls>>]_vars

\* the step is the settlement handler of run r writing #lastEnd: the then
\* handler of a fulfilled future, or the catch handler of a future rejected with
\* something other than GameCanceled
WritesLastEnd(r) ==
  \/ JobRuns("retThen", r) /\ pst[<<"RET", r>>].st = "fulfilled"
  \/ /\ JobRuns("retCatch", r)
     /\ pst[<<"RET", r>>].st = "rejected"
     /\ pst[<<"RET", r>>].v # GameCanceled

\* C24: lastGameResult is undefined while the future of the run whose handle
\* is set is pending; it becomes defined only in the settlement handler of a
\* run, which writes that run's own outcome, at most once per run, and never
\* while the handle of a later run is set.
C24_LastResultIsOwnOutcome ==
  /\ []((runningHandle # 0 /\ pst[<<"RET", runningHandle>>].st = "pending")
          => lastGameResult = Undefined)
  /\ [][/\ (lastGameResult' # lastGameResult /\ lastGameResult' # Undefined)
             => \E r \in 1..nRuns : WritesLastEnd(r)
        /\ \A r \in 1..nRuns :
             WritesLastEnd(r)
               => /\ lastGameResult' =
                       (IF pst[<<"RET", r>>].st = "fulfilled" THEN pst[<<"RET", r>>].v
                        ELSE ErrorOutcome(pst[<<"RET", r>>].v))
                  /\ EndsOf(r) = {}
                  /\ runningHandle \in {0, r}]_vars

\* C25: the finally handler of run r clears the run handle only when the
\* handle is run r's own; a handle that is set is replaced or cleared only by
\* the finally handler of its own run or by a reset() call, so that the
\* settlement of an earlier run leaves join() at the newer run's future.
C25_StaleFinallyKeepsHandle ==
  /\ [][\A r \in 1..nRuns :
          JobRuns("retFin", r)
            => runningHandle' = (IF runningHandle = r THEN 0 ELSE runningHandle)]_vars
  /\ [][(runningHandle # 0 /\ runningHandle' # runningHandle)
          => \/ JobRuns("retFin", runningHandle)
             \/ lastCall'.op = "reset"]_vars
  /\ [](join # NoP => join = <<"RET", runningHandle>>)

\* C25 witness: run 1 was reset, run 2 was accepted, and all three settlement
\* handlers of run 1 have run while run 2's future is pending: join() is still
\* run 2's future
C25_Witness ==
  /\ canceledBy[1] # 0
  /\ pst[<<"RET", 1>>].st = "rejected"
  /\ EndsOf(1) # {}
  /\ ~InQueue("retThen", 1) /\ ~InQueue("retCatch", 1) /\ ~InQueue("retFin", 1)
  /\ pst[<<"RET", 2>>].st = "pending"
  /\ join = <<"RET", 2>>

\* C26: in every state in which the promise a reset() call returned has
\* settled, the timer of that reset is not armed: it has fired, or it has been
\* cleared (when resetImpl's promise settled first, fulfilled or rejected), or
\* the reset found no run and created none; the timer promise of a reset that
\* created one is then resolved as well.
C26_SettledResetHasNoTimer ==
  \A k \in Ids :
    pst[<<"R", k>>].st \in {"fulfilled", "rejected"}
      => /\ timer[k] \in {"none", "fired", "cleared"}
         /\ timer[k] = "none" <=> pst[<<"TP", k>>].st = "none"
         /\ timer[k] # "none" => pst[<<"TP", k>>].st = "fulfilled"
         /\ timer[k] = "cleared" => pst[<<"RP", k>>] = pst[<<"RI", k>>]

\* C26 witness: resetImpl of reset 1 rejected before the timer fired; the
\* promise of the reset is fulfilled and the timer has been cleared
C26_Witness ==
  /\ pst[<<"RI", 1>>].st = "rejected"
  /\ pst[<<"R", 1>>].st = "fulfilled"
  /\ timer[1] = "cleared"

\* the step is a call of the progress callback by loadImpl
ProgressReported == nCalls' = nCalls + 1 /\ lastCall' = NoCall

\* the "loading" event that a report of the value v must produce
LoadingEvent(v) ==
  [ev |-> "loading",
   arg |-> <<IF v < 0 THEN 0 ELSE IF v > 100 THEN 100 ELSE v>>,
   run |-> 0]

\* C27: every load emits exactly one "loading" event without payload, and it is
\* the first "loading" event; while a load is pending, every value reported
\* through the progress callback appends exactly one "loading" event, at the
\* end of the event sequence (so in the order reported), whose payload is the
\* reported value clamped into 0..100; every numeric payload is in 0..100.
C27_LoadingEventsFollowReports ==
  /\ [](/\ Indeterminate(events) = nLoads
        /\ \A n \in 1..Len(events) :
             (events[n].ev = "loading" /\ events[n].arg # <<>>)
               => /\ events[n].arg[1] \in 0..100
                  /\ \E m \in 1..(n - 1) :
                       events[m].ev = "loading" /\ events[m].arg = <<>>)
  /\ [][(ProgressReported /\ LoadPending)
          => \E v \in ProgressInputs : events' = Append(events, LoadingEvent(v))]_vars

\* C27 witness: one load is pending and has reported -5 and then 150: the
\* events are "loading" without payload, "loading" 0, "loading" 100
C27_Witness ==
  /\ LoadPending
  /\ nLoads = 1
  /\ events = <<[ev |-> "loading", arg |-> <<>>, run |-> 0],
                [ev |-> "loading", arg |-> <<0>>, run |-> 0],
                [ev |-> "loading", arg |-> <<100>>, run |-> 0]>>

\* the cancel signal has won the first race of run r
CancelWon(r) == pst[<<"P1", r>>] = [st |-> "fulfilled", v |-> GameCanceled]

\* job is one of the reactions registered on promise p
Reacts(p, job) == \E n \in 1..Len(rx[p]) : rx[p][n] = job

\* C28: once the cancel signal has won the race against startImpl's promise,
\* the future of the run is pending or rejected with GameCanceled, every "end"
\* event of the run carries GameCanceled and its handlers leave lastGameResult
\* alone, whatever startImpl's promise does afterwards; the executor rejects
\* the future at once when no reset promise is stored at that moment, and
\* otherwise waits for that reset promise and startImpl's promise: while the
\* future is pending either both of these are pending or the reactions that
\* reject it are queued.
C28_CancelWinsForGood ==
  /\ [](\A r \in 1..nRuns :
          CancelWon(r)
            => /\ \/ pst[<<"RET", r>>].st = "pending"
                  \/ pst[<<"RET", r>>] = [st |-> "rejected", v |-> GameCanceled]
               /\ \A n \in EndsOf(r) : events[n].arg = GameCanceled
               /\ (pst[<<"RET", r>>].st = "pending" /\ pst[<<"P2", r>>].st # "none")
                    => \/ InQueue("race2", r) \/ InQueue("catch2", r)
                       \/ InQueue("execRace2", r)
                       \/ /\ pst[<<"GP", r>>].st = "pending"
                          /\ Reacts(<<"GP", r>>, Job("race2", r, <<"GP", r>>))
                          /\ \E k \in 1..nResets :
                               /\ pst[<<"R", k>>].st = "pending"
                               /\ Reacts(<<"R", k>>, Job("race2", r, <<"R", k>>)))
  /\ [][\A r \in 1..nRuns :
          /\ (JobRuns("execRace1", r) /\ CancelWon(r))
               => IF resetPromise = 0
                    THEN pst'[<<"RET", r>>] = [st |-> "rejected", v |-> GameCanceled]
                    ELSE /\ pst'[<<"RET", r>>].st = "pending"
                         /\ pst'[<<"P2", r>>].st = "pending"
          /\ (CancelWon(r) /\ (JobRuns("retThen", r) \/ JobRuns("retCatch", r)))
               => lastGameResult' = lastGameResult]_vars

\* C28 witness: the cancel signal won, then startImpl's promise was fulfilled
\* with an outcome while the reset was pending: the future of run 1 is rejected
\* with GameCanceled, its "end" event carries GameCanceled and lastGameResult
\* is undefined
C28_Witness ==
  /\ CancelWon(1)
  /\ pst[<<"GP", 1>>].st = "fulfilled"
  /\ pst[<<"P2", 1>>] = pst[<<"GP", 1>>]
  /\ pst[<<"RET", 1>>] = [st |-> "rejected", v |-> GameCanceled]
  /\ EndsOf(1) # {}
  /\ lastGameResult = Undefined

\* C29: a reset() call that finds no reset promise stored clears the run
\* handle and lastGameResult in the call itself: right after it join() is
\* undefined and lastGameResult is undefined, while the promise it returned for
\* a run it found is still pending; a start() call made while the reset
\* promise is pending and no handle is set is accepted; a reset() call made
\* while the reset promise is pending, also after such a start(), returns that
\* promise and leaves the new run's handle in place.
C29_ResetClearsInTheCall ==
  /\ [][(lastCall'.op = "reset" /\ resetPromise = 0)
          => /\ join' = NoP
             /\ lastGameResult' = Undefined
             /\ (runningHandle # 0 /\ lastCall'.ret[1] = "R")
                  => /\ pst'[lastCall'.ret].st = "pending"
                     /\ resetPromise' = lastCall'.ret[2]]_vars
  /\ [][(ResetPending /\ runningHandle = 0 /\ lastCall'.op = "start")
          => /\ lastCall'.ret = <<"RET", nRuns + 1>>
             /\ join' = lastCall'.ret
             /\ UNCHANGED resetPromise]_vars
  /\ [][(ResetPending /\ lastCall'.op = "reset")
          => /\ lastCall'.ret = <<"R", resetPromise>>
             /\ UNCHANGED <<resetPromise, runningHandle, lastEnd>>]_vars

\* C29 witness: reset 1 cancelled run 1 and is pending; run 2 was accepted
\* during it and its future is pending; a further reset() call has just
\* returned the promise of reset 1, and join() is still run 2's future
C29_Witness ==
  /\ lastCall = [op |-> "reset", ret |-> <<"R", 1>>]
  /\ pst[<<"R", 1>>].st = "pending"
  /\ canceledBy[1] = 1 /\ canceledBy[2] = 0
  /\ pst[<<"RET", 2>>].st = "pending"
  /\ join = <<"RET", 2>>

\* C30 as stated: startImpl is not invoked for a run that a reset() has
\* already cancelled: in the step in which the executor of run r invokes
\* startImpl, run r has not been cancelled, so a run cancelled while its load
\* was pending never has a startImpl promise.
C30_NoStartImplAfterCancel ==
  [][\A r \in 1..nRuns :
       (~StartImplInvoked(pst, r) /\ StartImplInvoked(pst', r))
         => canceledBy[r] = 0]_vars

====
